---- MODULE Spec2Model ----
(***************************************************************************)
(* Model of the rhyme analysis engine of scoremybars                       *)
(* (src/utils/rhyme_engine.py).                                            *)
(*                                                                         *)
(* A Python str is a sequence of one-character strings, so that strip,     *)
(* split, lower, endswith and slicing are computed character by character. *)
(* A Python float that is the quotient of two small integers is the pair   *)
(* <<numerator, denominator>>.                                             *)
(***************************************************************************)
EXTENDS Integers, Sequences, FiniteSets, TLC

VARIABLES
    pc,         \* position of the call in progress
    text,       \* argument of analyze_rhymes
    analysis,   \* value returned by analyze_rhymes
    wordA,      \* first argument of the _words_rhyme call
    wordB,      \* second argument of the _words_rhyme call
    rhymes,     \* value returned by _words_rhyme(wordA, wordB)
    rhymesBack, \* value returned by _words_rhyme(wordB, wordA)
    score,      \* value returned by _calculate_similarity(wordA, wordB)
    engine,     \* attributes of the process-wide RhymeEngine instance
    calls,      \* the concurrent calls of analyze_rhymes, one per thread
    lineList,   \* argument of the _detect_rhyme_scheme call
    detected,   \* value returned by _detect_rhyme_scheme(lineList)
    lyricsIn,   \* argument of parse_lyrics
    parsed      \* sections returned by parse_lyrics(lyricsIn)

vars == <<pc, text, analysis, wordA, wordB, rhymes, rhymesBack, score,
          engine, calls, lineList, detected, lyricsIn, parsed>>

None == "None"

(***************************************************************************)
(* Bounds of the checked inputs.                                           *)
(***************************************************************************)
MaxWordLen == 3     \* longest generated argument of _words_rhyme
MaxLines == 3       \* most lines in a generated text
MaxWords == 3       \* most tokens on a generated line
MaxTokens == 4      \* most tokens in a generated text

(***************************************************************************)
(* Characters.                                                             *)
(***************************************************************************)
UpperChars ==
    << "A", "B", "C", "D", "E", "F", "G", "H", "I", "J", "K", "L", "M",
       "N", "O", "P", "Q", "R", "S", "T", "U", "V", "W", "X", "Y", "Z" >>

LowerChars ==
    << "a", "b", "c", "d", "e", "f", "g", "h", "i", "j", "k", "l", "m",
       "n", "o", "p", "q", "r", "s", "t", "u", "v", "w", "x", "y", "z" >>

\* self.vowels = 'aeiouAEIOU'
vowels == {"a", "e", "i", "o", "u", "A", "E", "I", "O", "U"}

\* the argument of every .strip('.,!?;:()[]{}')
Punctuation == {".", ",", "!", "?", ";", ":", "(", ")", "[", "]", "{", "}"}

\* the characters str.strip() and str.split() treat as white space
Whitespace == {" ", "\t", "\n", "\r", "\f"}

Min(S) == CHOOSE x \in S : \A y \in S : x <= y
Max(S) == CHOOSE x \in S : \A y \in S : x >= y

\* str.lower() on one character
UpperSet == {UpperChars[i] : i \in 1..Len(UpperChars)}

LowerOf ==
    [c \in UpperSet |->
        LowerChars[CHOOSE i \in 1..Len(UpperChars) : UpperChars[i] = c]] @@ << >>

LowerChar(c) == IF c \in UpperSet THEN LowerOf[c] ELSE c

\* a list comprehension over range(n): the list of the n values
List(f, n) == SubSeq(f, 1, n)

\* str.lower()
Lower(s) == List([i \in 1..Len(s) |-> LowerChar(s[i])], Len(s))

RECURSIVE FirstKept(_, _, _)
\* the first position from i on whose character is not in cs
FirstKept(s, cs, i) ==
    IF i > Len(s) \/ s[i] \notin cs THEN i ELSE FirstKept(s, cs, i + 1)

RECURSIVE LastKept(_, _, _)
\* the last position up to i whose character is not in cs
LastKept(s, cs, i) ==
    IF i < 1 \/ s[i] \notin cs THEN i ELSE LastKept(s, cs, i - 1)

\* str.strip(chars): drop the leading and the trailing characters in cs
Strip(s, cs) == SubSeq(s, FirstKept(s, cs, 1), LastKept(s, cs, Len(s)))

\* str.endswith(suffix)
EndsWith(s, suffix) ==
    /\ Len(suffix) <= Len(s)
    /\ \A k \in 1..Len(suffix) : s[Len(s) - Len(suffix) + k] = suffix[k]

\* s[-n:] for 1 <= n
LastChars(s, n) == IF Len(s) <= n THEN s ELSE SubSeq(s, Len(s) - n + 1, Len(s))

\* word.lower().strip('.,!?;:()[]{}')
CleanWord(word) == Strip(Lower(word), Punctuation)

(***************************************************************************)
(* self.rhyme_patterns: the dict literal repeats its keys with the same    *)
(* values, so the dict holds each key once.                                *)
(***************************************************************************)
rhyme_patterns ==
    << [pattern |-> <<"i","n","g">>,
        variations |-> << <<"i","n","g">>, <<"i","n">>, <<"i","m">> >>],
       [pattern |-> <<"e","r">>,
        variations |-> << <<"e","r">>, <<"i","r">>, <<"u","r">> >>],
       [pattern |-> <<"e","d">>,
        variations |-> << <<"e","d">>, <<"d">>, <<"t">> >>],
       [pattern |-> <<"s">>,
        variations |-> << <<"s">>, <<"z">>, <<"e","s">> >>],
       [pattern |-> <<"l","y">>,
        variations |-> << <<"l","y">>, <<"l","e","e">>, <<"l","i">> >>],
       [pattern |-> <<"t","i","o","n">>,
        variations |-> << <<"t","i","o","n">>, <<"s","i","o","n">>,
                          <<"c","i","o","n">> >>],
       [pattern |-> <<"a","b","l","e">>,
        variations |-> << <<"a","b","l","e">>, <<"i","b","l","e">> >>],
       [pattern |-> <<"o","u","s">>,
        variations |-> << <<"o","u","s">>, <<"u","s">> >>],
       [pattern |-> <<"a","l">>,
        variations |-> << <<"a","l">>, <<"e","l">>, <<"i","l">>,
                          <<"o","l">>, <<"u","l">> >>],
       [pattern |-> <<"a","t","e">>,
        variations |-> << <<"a","t","e">>, <<"i","t">>, <<"e","t">> >>],
       [pattern |-> <<"i","z","e">>,
        variations |-> << <<"i","z","e">>, <<"i","s","e">>, <<"y","z","e">> >>],
       [pattern |-> <<"m","e","n","t">>,
        variations |-> << <<"m","e","n","t">>, <<"m","i","n","t">> >>],
       [pattern |-> <<"n","e","s","s">>,
        variations |-> << <<"n","e","s","s">>, <<"n","i","s">> >>],
       [pattern |-> <<"f","u","l">>,
        variations |-> << <<"f","u","l">>, <<"f","u","l","l">> >>],
       [pattern |-> <<"l","e","s","s">>,
        variations |-> << <<"l","e","s","s">>, <<"l","e","s">> >>] >>

\* self.consonants = 'bcdfghjklmnpqrstvwxyzBCDFGHJKLMNPQRSTVWXYZ': the
\* letters that are not vowels
consonants ==
    ({LowerChars[i] : i \in 1..Len(LowerChars)} \cup UpperSet) \ vowels

\* RhymeEngine.__init__: the attributes of a constructed engine
__init__ ==
    [vowels |-> vowels, consonants |-> consonants,
     rhyme_patterns |-> rhyme_patterns]

\* _similar_ending_pattern: equal vowel/consonant shapes
VCPattern(end) ==
    List([i \in 1..Len(end) |-> IF end[i] \in vowels THEN "V" ELSE "C"], Len(end))

_similar_ending_pattern(end1, end2) ==
    IF Len(end1) # Len(end2) THEN FALSE
    ELSE VCPattern(end1) = VCPattern(end2)

\* the loop over self.rhyme_patterns.items() of _words_rhyme
PatternMatch(w1, w2) ==
    \E k \in 1..Len(rhyme_patterns) :
        \/ EndsWith(w1, rhyme_patterns[k].pattern)
             /\ EndsWith(w2, rhyme_patterns[k].pattern)
        \/ \E v \in 1..Len(rhyme_patterns[k].variations) :
             /\ EndsWith(w1, rhyme_patterns[k].variations[v])
             /\ EndsWith(w2, rhyme_patterns[k].variations[v])

\* _words_rhyme without its first test
WordsRhymeNoIdentityTest(word1, word2) ==
    LET w1 == CleanWord(word1)
        w2 == CleanWord(word2)
    IN  \/ EndsWith(w1, w2) \/ EndsWith(w2, w1)
        \/ PatternMatch(w1, w2)
        \/ /\ Len(w1) >= 3 /\ Len(w2) >= 3
           /\ _similar_ending_pattern(LastChars(w1, 3), LastChars(w2, 3))
        \/ \E length \in {2, 3, 4} :
             /\ Len(w1) >= length /\ Len(w2) >= length
             /\ LastChars(w1, length) = LastChars(w2, length)

\* _words_rhyme testing the suffix in one direction only
WordsRhymeOneWaySuffix(word1, word2) ==
    IF word1 = word2 THEN FALSE
    ELSE LET w1 == CleanWord(word1)
             w2 == CleanWord(word2)
         IN  \/ EndsWith(w1, w2)
             \/ PatternMatch(w1, w2)
             \/ /\ Len(w1) >= 3 /\ Len(w2) >= 3
                /\ _similar_ending_pattern(LastChars(w1, 3), LastChars(w2, 3))
             \/ \E length \in {2, 3, 4} :
                  /\ Len(w1) >= length /\ Len(w2) >= length
                  /\ LastChars(w1, length) = LastChars(w2, length)

\* RhymeEngine._words_rhyme
_words_rhyme(word1, word2) ==
    IF word1 = word2 THEN FALSE
    ELSE LET w1 == CleanWord(word1)
             w2 == CleanWord(word2)
         IN  \/ EndsWith(w1, w2) \/ EndsWith(w2, w1)
             \/ PatternMatch(w1, w2)
             \/ /\ Len(w1) >= 3 /\ Len(w2) >= 3
                /\ _similar_ending_pattern(LastChars(w1, 3), LastChars(w2, 3))
             \/ \E length \in {2, 3, 4} :
                  /\ Len(w1) >= length /\ Len(w2) >= length
                  /\ LastChars(w1, length) = LastChars(w2, length)

\* RhymeEngine._get_rhyme_key
_get_rhyme_key(word) ==
    LET w == CleanWord(word)
    IN  IF Len(w) >= 3 THEN LastChars(w, 3) ELSE w

\* RhymeEngine._count_syllables
_count_syllables(word) ==
    LET w == Lower(word)
        isVowel(i) == w[i] \in {"a", "e", "i", "o", "u"}
        syllable_count ==
            Cardinality({i \in 1..Len(w) :
                            isVowel(i) /\ (i = 1 \/ ~isVowel(i - 1))})
        corrected ==
            IF EndsWith(w, <<"e">>) /\ syllable_count > 1
            THEN syllable_count - 1 ELSE syllable_count
    IN  IF corrected < 1 THEN 1 ELSE corrected

\* RhymeEngine._calculate_similarity, a float as <<numerator, denominator>>
\* _calculate_similarity without its identity test, returning 0.0 when both
\* words are empty
CalculateSimilarityEmptyIsZero(word1, word2) ==
    LET shorter == IF Len(word1) < Len(word2) THEN Len(word1) ELSE Len(word2)
        longer == IF Len(word1) > Len(word2) THEN Len(word1) ELSE Len(word2)
        matches == Cardinality({i \in 1..shorter : word1[i] = word2[i]})
    IN  IF longer = 0 THEN <<0, 1>> ELSE <<matches, longer>>

_calculate_similarity(word1, word2) ==
    IF word1 = word2 THEN <<1, 1>>
    ELSE LET shorter == IF Len(word1) < Len(word2) THEN Len(word1) ELSE Len(word2)
             longer == IF Len(word1) > Len(word2) THEN Len(word1) ELSE Len(word2)
             matches == Cardinality({i \in 1..shorter : word1[i] = word2[i]})
         IN  IF longer = 0 THEN <<1, 1>> ELSE <<matches, longer>>

\* RhymeEngine._is_multi_syllabic_rhyme
\* _is_multi_syllabic_rhyme with "or" in place of "and" in its last line
IsMultiSyllabicRhymeEitherWord(word1, word2) ==
    IF ~_words_rhyme(word1, word2) THEN FALSE
    ELSE _count_syllables(word1) >= 2 \/ _count_syllables(word2) >= 2

_is_multi_syllabic_rhyme(word1, word2) ==
    IF ~_words_rhyme(word1, word2) THEN FALSE
    ELSE _count_syllables(word1) >= 2 /\ _count_syllables(word2) >= 2

\* RhymeEngine._is_slant_rhyme: similarity >= 0.7
\* _is_slant_rhyme without its test "if self._words_rhyme(word1, word2)"
IsSlantRhymeIgnoringRhyme(word1, word2) ==
    LET similarity == _calculate_similarity(word1, word2)
    IN  similarity[1] * 10 >= 7 * similarity[2]

_is_slant_rhyme(word1, word2) ==
    IF _words_rhyme(word1, word2) THEN FALSE
    ELSE LET similarity == _calculate_similarity(word1, word2)
         IN  similarity[1] * 10 >= 7 * similarity[2]

(***************************************************************************)
(* Splitting a text into lines and a line into tokens.                     *)
(***************************************************************************)
RECURSIVE SplitNewline(_)
\* text.split('\n')
SplitNewline(s) ==
    LET breaks == {i \in 1..Len(s) : s[i] = "\n"}
    IN  IF breaks = {} THEN << s >>
        ELSE << SubSeq(s, 1, Min(breaks) - 1) >>
                 \o SplitNewline(SubSeq(s, Min(breaks) + 1, Len(s)))

RECURSIVE SplitScan(_, _, _, _)
\* one pass over s from position i: word is the run of characters that are
\* not white space read so far, words the runs already closed
SplitScan(s, i, word, words) ==
    IF i > Len(s)
    THEN IF word = << >> THEN words ELSE Append(words, word)
    ELSE IF s[i] \in Whitespace
    THEN SplitScan(s, i + 1, << >>,
                   IF word = << >> THEN words ELSE Append(words, word))
    ELSE SplitScan(s, i + 1, Append(word, s[i]), words)

\* line.split(): the maximal runs of characters that are not white space
SplitWords(s) == SplitScan(s, 1, << >>, << >>)

\* [line.strip() for line in text.split('\n') if line.strip()]
\* the comprehension of analyze_rhymes without its filter "if line.strip()"
StrippedLinesKeepingBlank(t) ==
    LET raw == SplitNewline(t)
    IN  List([i \in 1..Len(raw) |-> Strip(raw[i], Whitespace)], Len(raw))

StrippedLines(t) ==
    LET raw == SplitNewline(t)
        stripped == List([i \in 1..Len(raw) |-> Strip(raw[i], Whitespace)],
                         Len(raw))
        NonEmpty(line) == line # << >>
    IN  SelectSeq(stripped, NonEmpty)

\* the last_words loop taking words[0] in place of words[-1]
FirstWords(lines) ==
    LET HasWords(line) == SplitWords(line) # << >>
        worded == SelectSeq(lines, HasWords)
    IN  List([i \in 1..Len(worded) |->
                LET words == SplitWords(worded[i])
                IN  Strip(Lower(words[1]), Punctuation)], Len(worded))

\* the last_words loop: the cleaned last token of every line that has one
LastWords(lines) ==
    LET HasWords(line) == SplitWords(line) # << >>
        worded == SelectSeq(lines, HasWords)
    IN  List([i \in 1..Len(worded) |->
                LET words == SplitWords(worded[i])
                IN  Strip(Lower(words[Len(words)]), Punctuation)], Len(worded))

\* words = [word.strip('.,!?;:()[]{}') for word in line.lower().split()]
LineWords(line) ==
    LET words == SplitWords(Lower(line))
    IN  List([i \in 1..Len(words) |-> Strip(words[i], Punctuation)], Len(words))

(***************************************************************************)
(* The pair loops: for i in range(len(w)): for j in range(i + 1, len(w)).  *)
(* Indices in the result are the 0-based indices of the code.              *)
(***************************************************************************)
RECURSIVE PairLoopAdjacent(_, _, _, _)
\* the pair loop comparing each word with the next word only
PairLoopAdjacent(words, i, j, acc) ==
    IF i >= Len(words) THEN acc
    ELSE PairLoopAdjacent(words, i + 1, i + 2,
                  IF _words_rhyme(words[i], words[i + 1])
                  THEN Append(acc, << i - 1, i, words[i], words[i + 1] >>)
                  ELSE acc)

RECURSIVE PairLoopSkippingNeighbour(_, _, _, _)
\* the pair loop with range(i + 2, ...) in place of range(i + 1, ...)
PairLoopSkippingNeighbour(words, i, j, acc) ==
    IF i > Len(words) THEN acc
    ELSE IF j > Len(words) THEN PairLoopSkippingNeighbour(words, i + 1, i + 2, acc)
    ELSE PairLoopSkippingNeighbour(words, i, j + 1,
                  IF j >= i + 2 /\ _words_rhyme(words[i], words[j])
                  THEN Append(acc, << i - 1, j - 1, words[i], words[j] >>)
                  ELSE acc)

RECURSIVE PairLoop(_, _, _, _)
PairLoop(words, i, j, acc) ==
    IF i > Len(words) THEN acc
    ELSE IF j > Len(words) THEN PairLoop(words, i + 1, i + 2, acc)
    ELSE PairLoop(words, i, j + 1,
                  IF _words_rhyme(words[i], words[j])
                  THEN Append(acc, << i - 1, j - 1, words[i], words[j] >>)
                  ELSE acc)

RhymingPairs(words) == PairLoop(words, 1, 2, << >>)

\* one iteration of the "Group rhymes" loop of _analyze_end_rhymes
\* the body of the "Group rhymes" loop without its test
\* "if word1 not in rhyme_groups[rhyme_key]"
AddPairToGroupsRepeatingWord(groups, pair) ==
    LET w1 == pair[3]
        w2 == pair[4]
        rhyme_key == _get_rhyme_key(w1)
        InSeq(x, q) == \E n \in 1..Len(q) : q[n] = x
        present == \E g \in 1..Len(groups) : groups[g].rhyme_key = rhyme_key
        withKey == IF present THEN groups
                   ELSE Append(groups, [rhyme_key |-> rhyme_key, words |-> << >>])
        g == CHOOSE n \in 1..Len(withKey) : withKey[n].rhyme_key = rhyme_key
        add1 == Append(withKey[g].words, w1)
        add2 == IF InSeq(w2, add1) THEN add1 ELSE Append(add1, w2)
    IN  [withKey EXCEPT ![g].words = add2]

AddPairToGroups(groups, pair) ==
    LET w1 == pair[3]
        w2 == pair[4]
        rhyme_key == _get_rhyme_key(w1)
        InSeq(x, q) == \E n \in 1..Len(q) : q[n] = x
        present == \E g \in 1..Len(groups) : groups[g].rhyme_key = rhyme_key
        withKey == IF present THEN groups
                   ELSE Append(groups, [rhyme_key |-> rhyme_key, words |-> << >>])
        g == CHOOSE n \in 1..Len(withKey) : withKey[n].rhyme_key = rhyme_key
        add1 == IF InSeq(w1, withKey[g].words) THEN withKey[g].words
                ELSE Append(withKey[g].words, w1)
        add2 == IF InSeq(w2, add1) THEN add1 ELSE Append(add1, w2)
    IN  [withKey EXCEPT ![g].words = add2]

RECURSIVE GroupLoop(_, _, _)
GroupLoop(pairs, n, groups) ==
    IF n > Len(pairs) THEN groups
    ELSE GroupLoop(pairs, n + 1, AddPairToGroups(groups, pairs[n]))

\* RhymeEngine._analyze_end_rhymes
_analyze_end_rhymes(lines) ==
    LET last_words == LastWords(lines)
        rhyme_pairs == RhymingPairs(last_words)
    IN  [rhyme_groups |-> GroupLoop(rhyme_pairs, 1, << >>),
         rhyme_pairs |-> rhyme_pairs,
         rhyme_density |->
            IF Len(lines) > 1
            THEN << 2 * Len(rhyme_pairs), Len(lines) * (Len(lines) - 1) >>
            ELSE << 0, 1 >>]

RECURSIVE SumLens(_, _)
\* sum(len(line.split()) for line in lines)
SumLens(lines, n) ==
    IF n > Len(lines) THEN 0
    ELSE Len(SplitWords(lines[n])) + SumLens(lines, n + 1)

RECURSIVE InternalLoopOverwriting(_, _, _, _)
\* the loop of _analyze_internal_rhymes with "total_internal_rhymes =" in
\* place of "total_internal_rhymes +="
InternalLoopOverwriting(lines, n, pairs, total) ==
    IF n > Len(lines) THEN [pairs |-> pairs, total |-> total]
    ELSE LET line_internal_rhymes == RhymingPairs(LineWords(lines[n]))
         IN  IF line_internal_rhymes # << >>
             THEN InternalLoopOverwriting(lines, n + 1,
                               Append(pairs, [line_index |-> n - 1,
                                              line |-> lines[n],
                                              rhymes |-> line_internal_rhymes]),
                               Len(line_internal_rhymes))
             ELSE InternalLoopOverwriting(lines, n + 1, pairs, total)

RECURSIVE InternalLoop(_, _, _, _)
\* the loop over enumerate(lines) of _analyze_internal_rhymes
InternalLoop(lines, n, pairs, total) ==
    IF n > Len(lines) THEN [pairs |-> pairs, total |-> total]
    ELSE LET line_internal_rhymes == RhymingPairs(LineWords(lines[n]))
         IN  IF line_internal_rhymes # << >>
             THEN InternalLoop(lines, n + 1,
                               Append(pairs, [line_index |-> n - 1,
                                              line |-> lines[n],
                                              rhymes |-> line_internal_rhymes]),
                               total + Len(line_internal_rhymes))
             ELSE InternalLoop(lines, n + 1, pairs, total)

\* _analyze_internal_rhymes testing total_words > 2
AnalyzeInternalRhymesOffByOne(lines) ==
    LET loop == InternalLoop(lines, 1, << >>, 0)
        total_words == SumLens(lines, 1)
    IN  [internal_rhyme_pairs |-> loop.pairs,
         internal_rhyme_density |->
            IF total_words > 2 THEN << loop.total, total_words >>
            ELSE << 0, 1 >>]

\* RhymeEngine._analyze_internal_rhymes
_analyze_internal_rhymes(lines) ==
    LET loop == InternalLoop(lines, 1, << >>, 0)
        total_words == SumLens(lines, 1)
    IN  [internal_rhyme_pairs |-> loop.pairs,
         internal_rhyme_density |->
            IF total_words > 1 THEN << loop.total, total_words >>
            ELSE << 0, 1 >>]

RECURSIVE InternalCountLoop(_, _, _, _)
\* the "Count internal rhymes" loop of _calculate_rhyme_density
InternalCountLoop(lines, n, total_rhymes, total_possible_rhymes) ==
    IF n > Len(lines) THEN << total_rhymes, total_possible_rhymes >>
    ELSE LET words == LineWords(lines[n])
         IN  InternalCountLoop(lines, n + 1,
                total_rhymes + Len(RhymingPairs(words)),
                total_possible_rhymes + (Len(words) * (Len(words) - 1)) \div 2)

\* RhymeEngine._calculate_rhyme_density
\* _calculate_rhyme_density without its test "if total_possible_rhymes == 0":
\* the quotient with denominator 0 stands for the ZeroDivisionError raised
CalculateRhymeDensityUnguarded(lines) ==
    IF lines = << >> THEN << 0, 1 >>
    ELSE LET last_words == LastWords(lines)
             n == Len(last_words)
         IN  InternalCountLoop(lines, 1, Len(RhymingPairs(last_words)),
                               (n * (n - 1)) \div 2)

_calculate_rhyme_density(lines) ==
    IF lines = << >> THEN << 0, 1 >>
    ELSE LET last_words == LastWords(lines)
             n == Len(last_words)
             totals == InternalCountLoop(lines, 1,
                          Len(RhymingPairs(last_words)), (n * (n - 1)) \div 2)
         IN  IF totals[2] = 0 THEN << 0, 1 >> ELSE totals

(***************************************************************************)
(* chr and ord on the code points from 'A' (65) to '~' (126).  The grave   *)
(* accent, code point 96, is written "U+0060".                             *)
(***************************************************************************)
CodeChars ==
    UpperChars \o << "[", "\\", "]", "^", "_", "U+0060" >> \o LowerChars
               \o << "{", "|", "}", "~" >>

ord(c) == 64 + (CHOOSE n \in 1..Len(CodeChars) : CodeChars[n] = c)

chr(n) == CodeChars[n - 64]

RECURSIVE FirstRhymeFromEnd(_, _, _, _)
\* the inner loop of _detect_rhyme_scheme scanning the earlier lines from
\* the nearest one backwards
FirstRhymeFromEnd(word, last_words, j, i) ==
    IF j >= i THEN 0
    ELSE IF _words_rhyme(word, last_words[i - j]) THEN i - j
    ELSE FirstRhymeFromEnd(word, last_words, j + 1, i)

RECURSIVE FirstRhyme(_, _, _, _)
\* the inner loop of _detect_rhyme_scheme: the first j < i, in ascending
\* order, with _words_rhyme(word, last_words[j]); 0 when the loop ends
\* without a break
FirstRhyme(word, last_words, j, i) ==
    IF j >= i THEN 0
    ELSE IF _words_rhyme(word, last_words[j]) THEN j
    ELSE FirstRhyme(word, last_words, j + 1, i)

RECURSIVE SchemeLoopSameLetter(_, _, _, _)
\* the outer loop of _detect_rhyme_scheme without the step to the next
\* letter
SchemeLoopSameLetter(last_words, i, rhyme_scheme, current_letter) ==
    IF i > Len(last_words) THEN rhyme_scheme
    ELSE LET j == FirstRhyme(last_words[i], last_words, 1, i)
         IN  IF j # 0
             THEN SchemeLoopSameLetter(last_words, i + 1,
                             Append(rhyme_scheme, rhyme_scheme[j]),
                             current_letter)
             ELSE SchemeLoopSameLetter(last_words, i + 1,
                             Append(rhyme_scheme, current_letter),
                             current_letter)

RECURSIVE SchemeLoopSkippingLetter(_, _, _, _)
\* the outer loop with the step to the next letter taken for every line
SchemeLoopSkippingLetter(last_words, i, rhyme_scheme, current_letter) ==
    IF i > Len(last_words) THEN rhyme_scheme
    ELSE LET j == FirstRhyme(last_words[i], last_words, 1, i)
         IN  IF j # 0
             THEN SchemeLoopSkippingLetter(last_words, i + 1,
                             Append(rhyme_scheme, rhyme_scheme[j]),
                             chr(ord(current_letter) + 1))
             ELSE SchemeLoopSkippingLetter(last_words, i + 1,
                             Append(rhyme_scheme, current_letter),
                             chr(ord(current_letter) + 1))

RECURSIVE SchemeLoop(_, _, _, _)
\* the outer loop of _detect_rhyme_scheme
SchemeLoop(last_words, i, rhyme_scheme, current_letter) ==
    IF i > Len(last_words) THEN rhyme_scheme
    ELSE LET j == FirstRhyme(last_words[i], last_words, 1, i)
         IN  IF j # 0
             THEN SchemeLoop(last_words, i + 1,
                             Append(rhyme_scheme, rhyme_scheme[j]),
                             current_letter)
             ELSE SchemeLoop(last_words, i + 1,
                             Append(rhyme_scheme, current_letter),
                             chr(ord(current_letter) + 1))

\* _detect_rhyme_scheme without the test of len(lines) < 2
DetectRhymeSchemeUnguarded(lines) ==
    SchemeLoop(LastWords(lines), 1, << >>, "A")

\* RhymeEngine._detect_rhyme_scheme
_detect_rhyme_scheme(lines) ==
    IF Len(lines) < 2 THEN << "A" >>
    ELSE SchemeLoop(LastWords(lines), 1, << >>, "A")

RECURSIVE AdjacentLoop(_, _, _, _, _)
\* the loops of _find_multi_syllabic_rhymes and _find_slant_rhymes over the
\* adjacent words (i, i + 1) of every line; kind is "multi" or "slant"
AdjacentLoop(lines, n, i, kind, acc) ==
    IF n > Len(lines) THEN acc
    ELSE LET words == LineWords(lines[n])
         IN  IF i >= Len(words) THEN AdjacentLoop(lines, n + 1, 1, kind, acc)
             ELSE LET w1 == words[i]
                      w2 == words[i + 1]
                      entry == [line_index |-> n - 1, line |-> lines[n],
                                word1 |-> w1, word2 |-> w2,
                                position |-> << i - 1, i >>]
                  IN  AdjacentLoop(lines, n, i + 1, kind,
                        IF kind = "multi"
                        THEN IF _is_multi_syllabic_rhyme(w1, w2)
                             THEN Append(acc, entry) ELSE acc
                        ELSE IF _is_slant_rhyme(w1, w2)
                             THEN Append(acc, [line_index |-> n - 1,
                                    line |-> lines[n],
                                    word1 |-> w1, word2 |-> w2,
                                    position |-> << i - 1, i >>,
                                    similarity |-> _calculate_similarity(w1, w2)])
                             ELSE acc)

\* RhymeEngine._find_multi_syllabic_rhymes
_find_multi_syllabic_rhymes(lines) == AdjacentLoop(lines, 1, 1, "multi", << >>)

\* RhymeEngine._find_slant_rhymes
_find_slant_rhymes(lines) == AdjacentLoop(lines, 1, 1, "slant", << >>)

\* RhymeEngine.analyze_rhymes
analyze_rhymes(t) ==
    LET lines == StrippedLines(t)
    IN  [end_rhymes |-> _analyze_end_rhymes(lines),
         internal_rhymes |-> _analyze_internal_rhymes(lines),
         rhyme_density |-> _calculate_rhyme_density(lines),
         rhyme_scheme |-> _detect_rhyme_scheme(lines),
         multi_syllabic_rhymes |-> _find_multi_syllabic_rhymes(lines),
         slant_rhymes |-> _find_slant_rhymes(lines),
         pattern |-> _detect_rhyme_scheme(lines)]

(***************************************************************************)
(* Inputs.                                                                 *)
(***************************************************************************)
SeqsUpTo(S, n) == UNION {[1..k -> S] : k \in 0..n}

sat == << "s", "a", "t" >>
bat == << "b", "a", "t" >>
ran == << "r", "a", "n" >>
today == << "t", "o", "d", "a", "y" >>
okay == << "o", "k", "a", "y" >>
gay == << "g", "a", "y" >>
me == << "m", "e" >>
MeComma == << "M", "e", "," >>
home == << "h", "o", "m", "e" >>
bone == << "b", "o", "n", "e" >>
dots == << ".", ".", "." >>

top == << "t", "o", "p" >>
Top == << "T", "o", "p" >>
TopDot == << "t", "o", "p", "." >>

\* the characters of the generated arguments of _words_rhyme: a vowel, a
\* consonant and a punctuation mark
WordAlphabet == {"a", "t", "."}

Words ==
    SeqsUpTo(WordAlphabet, MaxWordLen)
        \cup {sat, bat, ran, today, okay, gay, me, MeComma, home, bone, dots,
              top, Top, TopDot}

\* the tokens of the generated texts
Vocabulary == {me, MeComma, home, bone}

RECURSIVE Join(_, _)
\* sep.join(parts)
Join(parts, sep) ==
    IF parts = << >> THEN << >>
    ELSE IF Len(parts) = 1 THEN parts[1]
    ELSE parts[1] \o sep \o Join(Tail(parts), sep)

RECURSIVE SumSeq(_)
SumSeq(q) == IF q = << >> THEN 0 ELSE q[1] + SumSeq(Tail(q))

\* the text whose n-th line holds the next layout[n] tokens of tokens
TextOf(tokens, layout) ==
    LET before(n) == SumSeq(SubSeq(layout, 1, n - 1))
        line(n) == Join(SubSeq(tokens, before(n) + 1, before(n) + layout[n]),
                        << " " >>)
    IN  Join(List([n \in 1..Len(layout) |-> line(n)], Len(layout)), << "\n" >>)

\* the layouts of k tokens: lines without a blank line among them, or lines
\* of at most one token with blank lines among them
Layouts(k) ==
    {l \in SeqsUpTo(0..MaxWords, MaxLines) :
        /\ SumSeq(l) = k
        /\ \/ \A n \in 1..Len(l) : l[n] >= 1
           \/ \A n \in 1..Len(l) : l[n] <= 1}

GeneratedTexts ==
    UNION { { TextOf(tokens, layout) : layout \in Layouts(Len(tokens)) } :
            tokens \in SeqsUpTo(Vocabulary, MaxTokens) }

\* "cat sat\nhat bat\ndog ran"
SchemeExampleText ==
    Join(<< Join(<< <<"c","a","t">>, sat >>, << " " >>),
            Join(<< <<"h","a","t">>, bat >>, << " " >>),
            Join(<< <<"d","o","g">>, ran >>, << " " >>) >>, << "\n" >>)

\* "I'm feeling fine today\nEverything's okay\nThe sun is bright and gay"
RoundTripText ==
    Join(<< Join(<< <<"I","'","m">>, <<"f","e","e","l","i","n","g">>,
                    <<"f","i","n","e">>, today >>, << " " >>),
            Join(<< <<"E","v","e","r","y","t","h","i","n","g","'","s">>,
                    okay >>, << " " >>),
            Join(<< <<"T","h","e">>, <<"s","u","n">>, <<"i","s">>,
                    <<"b","r","i","g","h","t">>, <<"a","n","d">>, gay >>,
                 << " " >>) >>, << "\n" >>)

\* "  me Home \n \n\t\nbone. ": padded lines and lines of white space
PaddedText ==
    << " ", " " >> \o me \o << " ", "H", "o", "m", "e", " ", "\n", " ", "\n",
       "\t", "\n" >> \o bone \o << ".", " " >>

cat == << "c", "a", "t" >>
hat == << "h", "a", "t" >>
homy == << "h", "o", "m", "y" >>
bore == << "b", "o", "r", "e" >>

\* "cat hat sat bat": one line of four words that rhyme pairwise
DenseLineText == Join(<< cat, hat, sat, bat >>, << " " >>)

\* "home homy bone bore": home and homy do not rhyme and agree in three of
\* four positions; bone and bore agree in three of four positions and rhyme
SlantText == Join(<< home, homy, bone, bore >>, << " " >>)

\* "today okay cat hat\ntoday cat okay": rhyming neighbours of two
\* syllables, rhyming neighbours of one syllable, and two-syllable rhyming
\* words that are not neighbours
MultiText ==
    Join(<< Join(<< today, okay, cat, hat >>, << " " >>),
            Join(<< today, cat, okay >>, << " " >>) >>, << "\n" >>)

\* "[Chorus]\nme home": a bracketed section header before a lyric line
HeaderText ==
    << "[", "C", "h", "o", "r", "u", "s", "]", "\n" >>
        \o Join(<< me, home >>, << " " >>)

\* "... !?": a line whose tokens are punctuation only
PunctuationText == << ".", ".", ".", " ", "!", "?" >>

\* "me\nhome\na": the end word of the last line rhymes with no other
IsolatedText == Join(<< me, home, << "a" >> >>, << "\n" >>)

\* "e\nhe\nme": e is a suffix of he and of me, which do not rhyme
SuffixText == Join(<< << "e" >>, << "h", "e" >>, me >>, << "\n" >>)

\* "...\nme": the end word of the first line is cleaned to the empty word
EmptyWordText == Join(<< dots, me >>, << "\n" >>)

Texts ==
    GeneratedTexts
        \cup {SchemeExampleText, RoundTripText, PaddedText, DenseLineText,
              SlantText, MultiText, HeaderText, PunctuationText,
              IsolatedText, SuffixText, EmptyWordText}

(***************************************************************************)
(* The lyric parser (src/utils/lyric_parser.py).                           *)
(***************************************************************************)
\* the literals of self.section_patterns
INTRO == << "[", "i", "n", "t", "r", "o", "]" >>
VERSE_OPEN == << "[", "v", "e", "r", "s", "e" >>
CHORUS == << "[", "c", "h", "o", "r", "u", "s", "]" >>
HOOK == << "[", "h", "o", "o", "k", "]" >>
BRIDGE == << "[", "b", "r", "i", "d", "g", "e", "]" >>
OUTRO == << "[", "o", "u", "t", "r", "o", "]" >>
PRE_OPEN == << "[", "p", "r", "e" >>
POST_OPEN == << "[", "p", "o", "s", "t" >>
CHORUS_CLOSE == << "c", "h", "o", "r", "u", "s", "]" >>

Digits == {"0", "1", "2", "3", "4", "5", "6", "7", "8", "9"}

\* re.search of a pattern without operators: literal occurs somewhere in s
HasLiteral(s, literal) ==
    \E i \in 1..(Len(s) - Len(literal) + 1) :
        SubSeq(s, i, i + Len(literal) - 1) = literal

\* the first position from i on that holds no character of cs, or Len(s) + 1
SkipAll(s, i, cs) ==
    Min({k \in i..(Len(s) + 1) : IF k = Len(s) + 1 THEN TRUE ELSE s[k] \notin cs})

\* re.search(r'\[verse\s*\d*\]', s)
VerseMatch(s) ==
    \E i \in 1..(Len(s) - 5) :
        /\ SubSeq(s, i, i + 5) = VERSE_OPEN
        /\ LET k == SkipAll(s, SkipAll(s, i + 6, Whitespace), Digits)
           IN  k <= Len(s) /\ s[k] = "]"

\* re.search of prefix, then at most one character other than a newline,
\* then rest: the patterns r'\[pre.?chorus\]' and r'\[post.?chorus\]'
OptionalCharMatch(s, prefix, rest) ==
    \E i \in 1..(Len(s) - Len(prefix) + 1) :
        /\ SubSeq(s, i, i + Len(prefix) - 1) = prefix
        /\ LET j == i + Len(prefix)
           IN  \/ SubSeq(s, j, j + Len(rest) - 1) = rest
               \/ /\ j <= Len(s)
                  /\ s[j] # "\n"
                  /\ SubSeq(s, j + 1, j + Len(rest)) = rest

\* LyricParser._identify_section: the type of the first pattern of
\* self.section_patterns found in the lower-cased line, or None.  The
\* alternatives of the patterns that hold capital letters never match a
\* lower-cased line.
_identify_section(line) ==
    LET line_lower == Lower(line)
    IN  IF HasLiteral(line_lower, INTRO) THEN "intro"
        ELSE IF VerseMatch(line_lower) THEN "verse"
        ELSE IF HasLiteral(line_lower, CHORUS) \/ HasLiteral(line_lower, HOOK)
             THEN "chorus"
        ELSE IF HasLiteral(line_lower, BRIDGE) THEN "bridge"
        ELSE IF HasLiteral(line_lower, OUTRO) THEN "outro"
        ELSE IF OptionalCharMatch(line_lower, PRE_OPEN, CHORUS_CLOSE)
             THEN "pre_chorus"
        ELSE IF OptionalCharMatch(line_lower, POST_OPEN, CHORUS_CLOSE)
             THEN "post_chorus"
        ELSE None

\* LyricParser._count_bars
_count_bars(lines) ==
    Cardinality({n \in 1..Len(lines) :
        LET line == Strip(lines[n], Whitespace)
        IN  /\ line # << >>
            /\ _identify_section(line) = None
            /\ line[1] # "["})

\* LyricParser._create_section
_create_section(section_type, lines) ==
    LET joined == Join(lines, << "\n" >>)
    IN  [type |-> section_type,
         text |-> joined,
         bar_count |-> _count_bars(lines),
         line_count |-> Len(lines),
         word_count |-> Len(SplitWords(joined))]

RECURSIVE ParseLoopKeepingText(_, _, _, _, _)
\* the loop of parse_lyrics without "current_text = []" at a section header
ParseLoopKeepingText(lines, n, current_section, current_text, sections) ==
    IF n > Len(lines)
    THEN [current_section |-> current_section, current_text |-> current_text,
          sections |-> sections]
    ELSE LET line == Strip(lines[n], Whitespace)
             section_type == _identify_section(line)
         IN  IF line = << >>
             THEN ParseLoopKeepingText(lines, n + 1, current_section,
                                       current_text, sections)
             ELSE IF section_type # None
             THEN ParseLoopKeepingText(lines, n + 1, section_type, current_text,
                    IF current_section # None /\ current_text # << >>
                    THEN Append(sections,
                                _create_section(current_section, current_text))
                    ELSE sections)
             ELSE ParseLoopKeepingText(lines, n + 1,
                    IF current_section # None THEN current_section ELSE "verse",
                    Append(current_text, line), sections)

RECURSIVE ParseLoop(_, _, _, _, _)
\* the loop of parse_lyrics over the lines from the n-th on
ParseLoop(lines, n, current_section, current_text, sections) ==
    IF n > Len(lines)
    THEN [current_section |-> current_section, current_text |-> current_text,
          sections |-> sections]
    ELSE LET line == Strip(lines[n], Whitespace)
             section_type == _identify_section(line)
         IN  IF line = << >>
             THEN ParseLoop(lines, n + 1, current_section, current_text, sections)
             ELSE IF section_type # None
             THEN ParseLoop(lines, n + 1, section_type, << >>,
                    IF current_section # None /\ current_text # << >>
                    THEN Append(sections,
                                _create_section(current_section, current_text))
                    ELSE sections)
             ELSE ParseLoop(lines, n + 1,
                    IF current_section # None THEN current_section ELSE "verse",
                    Append(current_text, line), sections)

\* LyricParser.parse_lyrics
parse_lyrics(lyrics) ==
    LET lines == SplitNewline(Strip(lyrics, Whitespace))
        loop == ParseLoop(lines, 1, None, << >>, << >>)
        sections ==
            IF loop.current_section # None /\ loop.current_text # << >>
            THEN Append(loop.sections,
                        _create_section(loop.current_section, loop.current_text))
            ELSE loop.sections
    IN  IF sections = << >>
        THEN << _create_section("verse", lines) >>
        ELSE sections

(***************************************************************************)
(* The calls of analyze_rhymes.                                            *)
(***************************************************************************)
Init ==
    /\ pc = "ready"
    /\ text \in Texts
    /\ analysis = None
    /\ wordA = << >>
    /\ wordB = << >>
    /\ rhymes = None
    /\ rhymesBack = None
    /\ score = None
    /\ engine = __init__
    /\ calls = << >>
    /\ lineList = << >>
    /\ detected = None
    /\ lyricsIn = << >>
    /\ parsed = None

AnalyzeRhymes ==
    /\ pc = "ready"
    /\ analysis' = analyze_rhymes(text)
    /\ pc' = "done"
    /\ UNCHANGED <<text, wordA, wordB, rhymes, rhymesBack, score, engine,
                   calls, lineList, detected, lyricsIn, parsed>>

Next == AnalyzeRhymes

Spec == Init /\ [][Next]_vars

(***************************************************************************)
(* The calls of _words_rhyme on a pair of words, in both orders, and of    *)
(* _calculate_similarity on the same pair.                                 *)
(***************************************************************************)
InitWords ==
    /\ pc = "ready"
    /\ wordA \in Words
    /\ wordB \in Words
    /\ rhymes = None
    /\ rhymesBack = None
    /\ score = None
    /\ text = << >>
    /\ analysis = None
    /\ engine = __init__
    /\ calls = << >>
    /\ lineList = << >>
    /\ detected = None
    /\ lyricsIn = << >>
    /\ parsed = None

CallWordsRhyme ==
    /\ pc = "ready"
    /\ rhymes' = _words_rhyme(wordA, wordB)
    /\ pc' = "called"
    /\ UNCHANGED <<text, analysis, wordA, wordB, rhymesBack, score,
                   engine, calls, lineList, detected, lyricsIn, parsed>>

CallWordsRhymeBack ==
    /\ pc = "called"
    /\ rhymesBack' = _words_rhyme(wordB, wordA)
    /\ pc' = "done"
    /\ UNCHANGED <<text, analysis, wordA, wordB, rhymes, score, engine,
                   calls, lineList, detected, lyricsIn, parsed>>

CallCalculateSimilarity ==
    /\ pc = "done"
    /\ score' = _calculate_similarity(wordA, wordB)
    /\ pc' = "scored"
    /\ UNCHANGED <<text, analysis, wordA, wordB, rhymes, rhymesBack, engine,
                   calls, lineList, detected, lyricsIn, parsed>>

NextWords ==
    CallWordsRhyme \/ CallWordsRhymeBack \/ CallCalculateSimilarity

WordSpec == InitWords /\ [][NextWords]_vars

(***************************************************************************)
(* The calls of _detect_rhyme_scheme on a list of lines that all hold the  *)
(* same word: no line rhymes with another, so every line takes a label of  *)
(* its own.                                                                *)
(***************************************************************************)
MaxEqualLines == 27     \* most lines of a list of equal lines

\* the lists of k lines that each hold the same word
EqualLineLists ==
    {List([n \in 1..k |-> w], k) : w \in Vocabulary, k \in 1..MaxEqualLines}

InitScheme ==
    /\ pc = "ready"
    /\ lineList \in EqualLineLists
    /\ detected = None
    /\ text = << >>
    /\ analysis = None
    /\ wordA = << >>
    /\ wordB = << >>
    /\ rhymes = None
    /\ rhymesBack = None
    /\ score = None
    /\ engine = __init__
    /\ calls = << >>
    /\ lyricsIn = << >>
    /\ parsed = None

DetectRhymeScheme ==
    /\ pc = "ready"
    /\ detected' = _detect_rhyme_scheme(lineList)
    /\ pc' = "done"
    /\ UNCHANGED <<text, analysis, wordA, wordB, rhymes, rhymesBack, score,
                   engine, calls, lineList, lyricsIn, parsed>>

NextScheme == DetectRhymeScheme

SchemeSpec == InitScheme /\ [][NextScheme]_vars

(***************************************************************************)
(* The calls of parse_lyrics on the lyrics of a request.  The /analyze     *)
(* handler rejects lyrics that are empty after strip().                    *)
(***************************************************************************)
MaxLyricLines == 4      \* most lines of the generated lyrics

ChorusHeader == << "[", "C", "h", "o", "r", "u", "s", "]" >>
VerseHeader == << "[", "V", "e", "r", "s", "e", " ", "1", "]" >>
PreChorusHeader == << "[", "P", "r", "e", "-", "C", "h", "o", "r", "u", "s", "]" >>
RefrainLine == << "[", "R", "e", "f", "r", "a", "i", "n", "]" >>
PaddedHome == << " " >> \o home \o << " " >>

\* the lines of the generated lyrics: three headers the parser recognises,
\* a bracketed line it does not recognise, two lyric lines and a blank line
LyricItems ==
    {ChorusHeader, VerseHeader, PreChorusHeader, RefrainLine, me, PaddedHome,
     << >>}

Lyrics ==
    {l \in {Join(items, << "\n" >>) : items \in SeqsUpTo(LyricItems, MaxLyricLines)} :
        Strip(l, Whitespace) # << >>}

InitParse ==
    /\ pc = "ready"
    /\ lyricsIn \in Lyrics
    /\ parsed = None
    /\ text = << >>
    /\ analysis = None
    /\ wordA = << >>
    /\ wordB = << >>
    /\ rhymes = None
    /\ rhymesBack = None
    /\ score = None
    /\ engine = __init__
    /\ calls = << >>
    /\ lineList = << >>
    /\ detected = None

ParseLyrics ==
    /\ pc = "ready"
    /\ parsed' = parse_lyrics(lyricsIn)
    /\ pc' = "done"
    /\ UNCHANGED <<text, analysis, wordA, wordB, rhymes, rhymesBack, score,
                   engine, calls, lineList, detected, lyricsIn>>

NextParse == ParseLyrics

ParseSpec == InitParse /\ [][NextParse]_vars

(***************************************************************************)
(* Concurrent calls of analyze_rhymes on the one engine of the process,    *)
(* one call per request thread.  A call keeps its lines and the values of  *)
(* the dict under construction in its own frame; a step evaluates the      *)
(* comprehension of the lines or the next value of the dict.               *)
(***************************************************************************)
NumThreads == 2     \* request threads calling analyze_rhymes at once

Threads == 1..NumThreads

\* the keys of the analysis dict, in the order their values are evaluated
FieldNames ==
    << "end_rhymes", "internal_rhymes", "rhyme_density", "rhyme_scheme",
       "multi_syllabic_rhymes", "slant_rhymes", "pattern" >>

\* the k-th value of the analysis dict
FieldValue(k, lines) ==
    CASE k = 1 -> _analyze_end_rhymes(lines)
      [] k = 2 -> _analyze_internal_rhymes(lines)
      [] k = 3 -> _calculate_rhyme_density(lines)
      [] k = 4 -> _detect_rhyme_scheme(lines)
      [] k = 5 -> _find_multi_syllabic_rhymes(lines)
      [] k = 6 -> _find_slant_rhymes(lines)
      [] k = 7 -> _detect_rhyme_scheme(lines)

\* the texts of the concurrent requests: "me home", "home\nbone", "Me,"
ConcurrentTexts ==
    {TextOf(<< me, home >>, << 2 >>), TextOf(<< home, bone >>, << 1, 1 >>),
     MeComma}

\* the frame of a call that has not evaluated anything yet
NewCall(t) ==
    [text |-> t, pc |-> 0, lines |-> None,
     analysis |-> [k \in {FieldNames[n] : n \in 1..Len(FieldNames)} |-> None]]

InitConcurrent ==
    /\ pc = "ready"
    /\ text = << >>
    /\ analysis = None
    /\ wordA = << >>
    /\ wordB = << >>
    /\ rhymes = None
    /\ rhymesBack = None
    /\ score = None
    /\ engine = __init__
    /\ calls \in [Threads -> {NewCall(t) : t \in ConcurrentTexts}]
    /\ lineList = << >>
    /\ detected = None
    /\ lyricsIn = << >>
    /\ parsed = None

\* a call that keeps its lines in an attribute of the engine, self.lines,
\* instead of a local variable
StepSharingLines(t) ==
    /\ calls[t].pc <= Len(FieldNames)
    /\ IF calls[t].pc = 0
       THEN /\ engine' = [vowels |-> engine.vowels,
                          consonants |-> engine.consonants,
                          rhyme_patterns |-> engine.rhyme_patterns,
                          lines |-> StrippedLines(calls[t].text)]
            /\ calls' = [calls EXCEPT ![t].pc = 1]
       ELSE /\ calls' = [calls EXCEPT
                            ![t].analysis[FieldNames[calls[t].pc]] =
                                FieldValue(calls[t].pc, engine.lines),
                            ![t].pc = @ + 1]
            /\ UNCHANGED engine
    /\ UNCHANGED <<pc, text, analysis, wordA, wordB, rhymes, rhymesBack, score,
                   lineList, detected, lyricsIn, parsed>>

\* one step of the call of thread t: the comprehension of the lines, then
\* the values of the dict one after the other; the call has returned when
\* the last value is computed
Step(t) ==
    /\ calls[t].pc <= Len(FieldNames)
    /\ IF calls[t].pc = 0
       THEN calls' = [calls EXCEPT ![t].lines = StrippedLines(calls[t].text),
                                   ![t].pc = 1]
       ELSE calls' = [calls EXCEPT
                        ![t].analysis[FieldNames[calls[t].pc]] =
                            FieldValue(calls[t].pc, calls[t].lines),
                        ![t].pc = @ + 1]
    /\ UNCHANGED <<pc, text, analysis, wordA, wordB, rhymes, rhymesBack, score,
                   engine, lineList, detected, lyricsIn, parsed>>

NextConcurrent == \E t \in Threads : Step(t)

ConcurrentSpec == InitConcurrent /\ [][NextConcurrent]_vars

(***************************************************************************)
(* Properties.                                                             *)
(***************************************************************************)
\* the lines analyze_rhymes analyses and their end words
Lines == StrippedLines(text)
EndWords == LastWords(Lines)

\* C1: for every word w, _words_rhyme(w, w) is false: a word never rhymes
\* with itself.
C1_NoSelfRhyme ==
    (pc # "ready" /\ wordA = wordB) => rhymes = FALSE

C1_Witness ==
    pc = "done" /\ wordA = sat /\ wordB = sat /\ rhymes = FALSE

\* C2: _words_rhyme is symmetric: the call on (a, b) and the call on (b, a)
\* return the same value, for every pair of words.
C2_Symmetric ==
    pc = "done" => rhymes = rhymesBack

C2_Witness ==
    pc = "done" /\ wordA = home /\ wordB = me /\ rhymes = TRUE
        /\ rhymesBack = TRUE

\* C3: for two or more lines the scheme has one label per line; line i
\* carries the label of the lowest-index earlier line whose end word rhymes
\* with its own, and when no earlier line rhymes it carries the next unused
\* letter, starting at 'A'.  Only direct matches against earlier lines
\* count.
C3_GreedyFirstMatch ==
    (pc = "done" /\ Len(Lines) >= 2) =>
        LET scheme == analysis.rhyme_scheme
            Earlier(i) == {j \in 1..(i - 1) : _words_rhyme(EndWords[i], EndWords[j])}
            Fresh(i) == {k \in 1..(i - 1) : Earlier(k) = {}}
        IN  /\ Len(scheme) = Len(Lines)
            /\ \A i \in 1..Len(scheme) :
                  IF Earlier(i) # {}
                  THEN scheme[i] = scheme[Min(Earlier(i))]
                  ELSE scheme[i] = UpperChars[Cardinality(Fresh(i)) + 1]

\* lines ending in me, bone, home: home rhymes with both earlier end words,
\* which do not rhyme with each other, and takes the label of the first
C3_Witness ==
    /\ pc = "done"
    /\ EndWords = << me, bone, home >>
    /\ analysis.rhyme_scheme = << "A", "B", "A" >>

\* C4: _detect_rhyme_scheme returns "A" for an empty list of lines and for
\* a list of exactly one line.
C4_SchemeOfFewLines ==
    (pc = "done" /\ Len(Lines) < 2) => analysis.rhyme_scheme = << "A" >>

C4_Witness ==
    pc = "done" /\ Lines = << >> /\ analysis.rhyme_scheme = << "A" >>

\* C5: the rhyme scheme of "cat sat", "hat bat", "dog ran" is "AAB".
C5_SchemeExample ==
    (pc = "done" /\ text = SchemeExampleText) =>
        analysis.rhyme_scheme = << "A", "A", "B" >>

\* C6: for the text whose lines end in today, okay, gay, all three
\* unordered pairs of end words are reported as rhyming, one rhyme group
\* holds all three words, the scheme is "AAA" and the end-rhyme density is
\* exactly 1.
C6_RoundTrip ==
    (pc = "done" /\ text = RoundTripText) =>
        LET end == analysis.end_rhymes
            Reported(q) == \E n \in 1..Len(end.rhyme_pairs) : end.rhyme_pairs[n] = q
            Members(g) == {end.rhyme_groups[g].words[n] :
                              n \in 1..Len(end.rhyme_groups[g].words)}
        IN  /\ Len(end.rhyme_pairs) = 3
            /\ Reported(<< 0, 1, today, okay >>)
            /\ Reported(<< 0, 2, today, gay >>)
            /\ Reported(<< 1, 2, okay, gay >>)
            /\ \E g \in 1..Len(end.rhyme_groups) : Members(g) = {today, okay, gay}
            /\ analysis.rhyme_scheme = << "A", "A", "A" >>
            /\ end.rhyme_density[1] = end.rhyme_density[2]

C6_Witness ==
    pc = "done" /\ text = RoundTripText /\ EndWords = << today, okay, gay >>

\* C7 as stated: for two or more lines, two lines carry the same label if
\* and only if their end words rhyme.
C7_SameLabelIffRhyme ==
    (pc = "done" /\ Len(Lines) >= 2) =>
        \A i, j \in 1..Len(EndWords) :
            i < j => ((analysis.rhyme_scheme[i] = analysis.rhyme_scheme[j])
                        <=> _words_rhyme(EndWords[i], EndWords[j]))

\* C7 amended: for two or more lines, a line carries the label of some
\* earlier line if and only if its end word rhymes with the end word of
\* some earlier line, and then one of the earlier lines it rhymes with
\* carries its label.
C7_SharedLabelIffRhymesEarlier ==
    (pc = "done" /\ Len(Lines) >= 2) =>
        LET scheme == analysis.rhyme_scheme
        IN  \A i \in 1..Len(EndWords) :
                /\ (\E j \in 1..(i - 1) : scheme[j] = scheme[i])
                     <=> (\E j \in 1..(i - 1) : _words_rhyme(EndWords[i], EndWords[j]))
                /\ (\E j \in 1..(i - 1) : scheme[j] = scheme[i])
                     => (\E j \in 1..(i - 1) :
                            /\ scheme[j] = scheme[i]
                            /\ _words_rhyme(EndWords[i], EndWords[j]))

\* lines ending in me, home, bone: all three share the label A, and me and
\* bone do not rhyme
C7_Witness ==
    /\ pc = "done"
    /\ EndWords = << me, home, bone >>
    /\ analysis.rhyme_scheme = << "A", "A", "A" >>
    /\ ~_words_rhyme(me, bone)

\* C8: the end-rhyme density is the number of unordered pairs i < j of
\* line-ending words that rhyme, over all pairs of lines and each pair
\* counted once, divided by n(n-1)/2 for n lines; it is 0 for fewer than
\* two lines.
C8_EndRhymeDensity ==
    pc = "done" =>
        LET n == Len(Lines)
            density == analysis.end_rhymes.rhyme_density
            rhyming == {q \in (1..n) \X (1..n) :
                          q[1] < q[2] /\ _words_rhyme(EndWords[q[1]], EndWords[q[2]])}
        IN  /\ density[2] > 0
            /\ IF n < 2 THEN density[1] = 0
               ELSE density[1] * ((n * (n - 1)) \div 2)
                        = Cardinality(rhyming) * density[2]

\* lines ending in me, bone, home: two of the three pairs rhyme, one of
\* them between lines that are not adjacent
C8_Witness ==
    /\ pc = "done"
    /\ EndWords = << me, bone, home >>
    /\ analysis.end_rhymes.rhyme_density[1] * 3
          = 2 * analysis.end_rhymes.rhyme_density[2]

\* C9: the internal-rhyme density is the number of rhyming unordered word
\* pairs i < j inside the same line, summed over all lines, divided by the
\* total word count of all lines; it is 0 when the text has fewer than two
\* words.
C9_InternalRhymeDensity ==
    pc = "done" =>
        LET density == analysis.internal_rhymes.internal_rhyme_density
            tokens == List([n \in 1..Len(Lines) |-> LineWords(Lines[n])], Len(Lines))
            RhymingIn(n) ==
                {q \in (1..Len(tokens[n])) \X (1..Len(tokens[n])) :
                    q[1] < q[2] /\ _words_rhyme(tokens[n][q[1]], tokens[n][q[2]])}
            rhyming == UNION {{<< n, q >> : q \in RhymingIn(n)} : n \in 1..Len(Lines)}
            words == UNION {{<< n, i >> : i \in 1..Len(tokens[n])} : n \in 1..Len(Lines)}
        IN  /\ density[2] > 0
            /\ IF Cardinality(words) < 2 THEN density[1] = 0
               ELSE density[1] * Cardinality(words)
                        = Cardinality(rhyming) * density[2]

\* "me home" and "home bone": one rhyming pair in each line and four words
C9_Witness ==
    /\ pc = "done"
    /\ Lines = << Join(<< me, home >>, << " " >>), Join(<< home, bone >>, << " " >>) >>
    /\ analysis.internal_rhymes.internal_rhyme_density = << 2, 4 >>

\* C10 as stated: for every text of a single line, the end-rhyme density
\* and the internal-rhyme density are both 0.
C10_SingleLineDensitiesZero ==
    (pc = "done" /\ Len(Lines) = 1) =>
        /\ analysis.end_rhymes.rhyme_density[1] = 0
        /\ analysis.internal_rhymes.internal_rhyme_density[1] = 0

\* C10 amended: for every text of a single line the end-rhyme density is 0;
\* the internal-rhyme density is 0 exactly when no two words of the line
\* rhyme, and otherwise it is the number of rhyming word pairs of the line
\* divided by its word count.
C10_SingleLineDensities ==
    (pc = "done" /\ Len(Lines) = 1) =>
        LET density == analysis.internal_rhymes.internal_rhyme_density
            tokens == LineWords(Lines[1])
            rhyming == {q \in (1..Len(tokens)) \X (1..Len(tokens)) :
                          q[1] < q[2] /\ _words_rhyme(tokens[q[1]], tokens[q[2]])}
        IN  /\ analysis.end_rhymes.rhyme_density[1] = 0
            /\ density[2] > 0
            /\ (density[1] = 0) <=> (rhyming = {})
            /\ density[1] * Len(tokens) = Cardinality(rhyming) * density[2]

\* the single line "me home": one rhyming pair among two words
C10_Witness ==
    /\ pc = "done"
    /\ Lines = << Join(<< me, home >>, << " " >>) >>
    /\ analysis.end_rhymes.rhyme_density[1] = 0
    /\ analysis.internal_rhymes.internal_rhyme_density = << 1, 2 >>

\* C11 as stated: the overall rhyme density, the end-rhyme density and the
\* internal-rhyme density of every text lie in [0, 1].
C11_DensitiesInUnitInterval ==
    pc = "done" =>
        LET InUnit(d) == d[2] > 0 /\ 0 <= d[1] /\ d[1] <= d[2]
        IN  /\ InUnit(analysis.rhyme_density)
            /\ InUnit(analysis.end_rhymes.rhyme_density)
            /\ InUnit(analysis.internal_rhymes.internal_rhyme_density)

\* a text that is empty or holds blank lines only
OnlyWhitespace(t) == \A i \in 1..Len(t) : t[i] \in Whitespace

\* the lists and densities of the result of a text without words
EmptyListsZeroDensities ==
    /\ analysis.end_rhymes.rhyme_groups = << >>
    /\ analysis.end_rhymes.rhyme_pairs = << >>
    /\ analysis.internal_rhymes.internal_rhyme_pairs = << >>
    /\ analysis.multi_syllabic_rhymes = << >>
    /\ analysis.slant_rhymes = << >>
    /\ analysis.rhyme_density[1] = 0
    /\ analysis.rhyme_density[2] > 0
    /\ analysis.end_rhymes.rhyme_density[1] = 0
    /\ analysis.end_rhymes.rhyme_density[2] > 0
    /\ analysis.internal_rhymes.internal_rhyme_density[1] = 0
    /\ analysis.internal_rhymes.internal_rhyme_density[2] > 0

\* C12 as stated: for the empty string and for a text of blank lines only,
\* analyze_rhymes returns empty lists, densities 0 and the empty string as
\* rhyme scheme.
C12_EmptyTextEmptyScheme ==
    (pc = "done" /\ OnlyWhitespace(text)) =>
        /\ EmptyListsZeroDensities
        /\ analysis.rhyme_scheme = << >>

\* C12 amended: for the empty string and for a text of blank lines only,
\* analyze_rhymes returns empty lists, densities 0 and the rhyme scheme
\* "A", both as rhyme_scheme and as pattern.
C12_EmptyTextResult ==
    (pc = "done" /\ OnlyWhitespace(text)) =>
        /\ EmptyListsZeroDensities
        /\ analysis.rhyme_scheme = << "A" >>
        /\ analysis.pattern = << "A" >>

\* a text of blank lines only
C12_Witness ==
    /\ pc = "done"
    /\ text # << >>
    /\ OnlyWhitespace(text)
    /\ analysis.rhyme_scheme = << "A" >>
    /\ analysis.slant_rhymes = << >>

\* the cleaned words of every analysed line
Tokens == List([n \in 1..Len(Lines) |-> LineWords(Lines[n])], Len(Lines))

\* the pairs <<n, i>> of a line n and a position i that has a right neighbour
Neighbours ==
    UNION {{<< n, i >> : i \in 1..(Len(Tokens[n]) - 1)} : n \in 1..Len(Lines)}

\* C13: slant_rhymes holds one entry for line L and positions (i, i+1)
\* exactly when the two adjacent words do not rhyme and their similarity is
\* at least 0.70; the entry records the line index, the line, both words,
\* the positions and that similarity.  No entry is a pair that rhymes.
C13_SlantEntries ==
    pc = "done" =>
        LET slant == analysis.slant_rhymes
            Sim(q) == _calculate_similarity(Tokens[q[1]][q[2]],
                                            Tokens[q[1]][q[2] + 1])
            Expected ==
                {q \in Neighbours :
                    /\ ~_words_rhyme(Tokens[q[1]][q[2]], Tokens[q[1]][q[2] + 1])
                    /\ Sim(q)[1] * 10 >= 7 * Sim(q)[2]}
            Entry(q) ==
                [line_index |-> q[1] - 1, line |-> Lines[q[1]],
                 word1 |-> Tokens[q[1]][q[2]], word2 |-> Tokens[q[1]][q[2] + 1],
                 position |-> << q[2] - 1, q[2] >>, similarity |-> Sim(q)]
        IN  /\ {slant[k] : k \in 1..Len(slant)} = {Entry(q) : q \in Expected}
            /\ Len(slant) = Cardinality(Expected)
            /\ \A k \in 1..Len(slant) :
                  ~_words_rhyme(slant[k].word1, slant[k].word2)

\* "home homy bone bore": home/homy is the one slant entry, with similarity
\* 3/4; bone/bore has the same similarity and rhymes
C13_Witness ==
    /\ pc = "done"
    /\ text = SlantText
    /\ Len(analysis.slant_rhymes) = 1
    /\ analysis.slant_rhymes[1].word1 = home
    /\ analysis.slant_rhymes[1].word2 = homy
    /\ analysis.slant_rhymes[1].similarity = << 3, 4 >>
    /\ _words_rhyme(bone, bore)

\* C14: multi_syllabic_rhymes holds one entry for line L and positions
\* (i, i+1) exactly when the two adjacent words rhyme and each has a syllable
\* count of at least 2; words that are not neighbours are never reported,
\* and neither is a rhyming pair of one-syllable words such as cat/hat.
C14_MultiSyllabicEntries ==
    pc = "done" =>
        LET multi == analysis.multi_syllabic_rhymes
            Expected ==
                {q \in Neighbours :
                    /\ _words_rhyme(Tokens[q[1]][q[2]], Tokens[q[1]][q[2] + 1])
                    /\ _count_syllables(Tokens[q[1]][q[2]]) >= 2
                    /\ _count_syllables(Tokens[q[1]][q[2] + 1]) >= 2}
            Entry(q) ==
                [line_index |-> q[1] - 1, line |-> Lines[q[1]],
                 word1 |-> Tokens[q[1]][q[2]], word2 |-> Tokens[q[1]][q[2] + 1],
                 position |-> << q[2] - 1, q[2] >>]
        IN  /\ {multi[k] : k \in 1..Len(multi)} = {Entry(q) : q \in Expected}
            /\ Len(multi) = Cardinality(Expected)
            /\ \A k \in 1..Len(multi) :
                  /\ multi[k].position[2] = multi[k].position[1] + 1
                  /\ << multi[k].word1, multi[k].word2 >> # << cat, hat >>

\* "today okay cat hat" and "today cat okay": the neighbours today/okay of
\* the first line are the one entry; cat/hat rhyme with one syllable each,
\* and today and okay are not neighbours in the second line
C14_Witness ==
    /\ pc = "done"
    /\ text = MultiText
    /\ Len(analysis.multi_syllabic_rhymes) = 1
    /\ analysis.multi_syllabic_rhymes[1].line_index = 0
    /\ analysis.multi_syllabic_rhymes[1].position = << 0, 1 >>
    /\ analysis.multi_syllabic_rhymes[1].word1 = today
    /\ analysis.multi_syllabic_rhymes[1].word2 = okay
    /\ _words_rhyme(cat, hat)

\* C15: for every pair of words _calculate_similarity returns a value in
\* [0, 1], and exactly 1 when the two words are the same string, two empty
\* strings included.
C15_SimilarityRange ==
    pc = "scored" =>
        /\ score[2] > 0
        /\ 0 <= score[1]
        /\ score[1] <= score[2]
        /\ (wordA = wordB) => (score[1] = score[2])

\* the call on two empty strings
C15_Witness ==
    pc = "scored" /\ wordA = << >> /\ wordB = << >> /\ score = << 1, 1 >>

\* the characters chr returns
Labels == {CodeChars[n] : n \in 1..Len(CodeChars)}

C17_CallsIndependent ==
    /\ engine = __init__
    /\ \A t \in DOMAIN calls :
          \A k \in 1..(calls[t].pc - 1) :
              calls[t].analysis[FieldNames[k]]
                  = analyze_rhymes(calls[t].text)[FieldNames[k]]

\* two calls on different texts, both under way, each with values computed
C17_Witness ==
    /\ calls # << >>
    /\ calls[1].text # calls[2].text
    /\ calls[1].pc = 5
    /\ calls[2].pc = 3
    /\ calls[1].analysis.rhyme_scheme # calls[2].analysis.rhyme_scheme
    /\ calls[1].analysis.internal_rhymes # calls[2].analysis.internal_rhymes
    /\ calls[2].analysis.rhyme_scheme = None

\* a trimmed line of bracket-header shape, such as "[Chorus]"
IsBracketHeader(line) ==
    Len(line) >= 2 /\ line[1] = "[" /\ line[Len(line)] = "]"

\* C18: the lines analysed are the trimmed non-blank lines of the text that
\* are not a bracketed section header: the end rhymes, the internal rhymes
\* and the scheme are those of the text without its header lines.
C18_HeaderLinesSkipped ==
    pc = "done" =>
        LET NotHeader(line) == ~IsBracketHeader(line)
            kept == SelectSeq(Lines, NotHeader)
        IN  /\ analysis.end_rhymes = _analyze_end_rhymes(kept)
            /\ analysis.internal_rhymes = _analyze_internal_rhymes(kept)
            /\ analysis.rhyme_scheme = _detect_rhyme_scheme(kept)

\* the length of the longest common suffix run of a and b
CommonSuffixRun(a, b) ==
    Max({n \in 0..Min({Len(a), Len(b)}) : LastChars(a, n) = LastChars(b, n)})

\* C19: _calculate_similarity(a, b) is the length of the longest common
\* suffix run of a and b divided by the length of the longer word.
C19_SimilarityIsSuffixRun ==
    (pc = "scored" /\ Max({Len(wordA), Len(wordB)}) > 0) =>
        score[1] * Max({Len(wordA), Len(wordB)})
            = CommonSuffixRun(wordA, wordB) * score[2]

\* C20: for two different words _words_rhyme is true exactly when, after
\* cleaning, (a) one word is a suffix of the other, or (b) both end with the
\* same suffix of the table, or (c) their last N characters are equal for
\* some N in {2, 3, 4}.
C20_RhymeRule ==
    (pc # "ready" /\ wordA # wordB) =>
        LET w1 == CleanWord(wordA)
            w2 == CleanWord(wordB)
        IN  rhymes <=>
                \/ EndsWith(w1, w2) \/ EndsWith(w2, w1)
                \/ PatternMatch(w1, w2)
                \/ \E N \in {2, 3, 4} :
                      /\ Len(w1) >= N /\ Len(w2) >= N
                      /\ LastChars(w1, N) = LastChars(w2, N)

\* C21: every member of a rhyme group of _analyze_end_rhymes is a word of
\* at least one reported rhyme pair, so an end word that rhymes with no other
\* end word is in no group, and no group lists the same word twice.
C21_GroupMembers ==
    pc = "done" =>
        LET groups == analysis.end_rhymes.rhyme_groups
            pairs == analysis.end_rhymes.rhyme_pairs
            Paired == {pairs[n][3] : n \in 1..Len(pairs)}
                          \cup {pairs[n][4] : n \in 1..Len(pairs)}
        IN  \A g \in 1..Len(groups) :
                /\ \A n \in 1..Len(groups[g].words) :
                      groups[g].words[n] \in Paired
                /\ \A m, n \in 1..Len(groups[g].words) :
                      groups[g].words[m] = groups[g].words[n] => m = n

\* "me\nhome\na": one group of me and home; the end word a is in none
C21_Witness ==
    /\ pc = "done"
    /\ text = IsolatedText
    /\ EndWords = << me, home, << "a" >> >>
    /\ analysis.end_rhymes.rhyme_groups = << [rhyme_key |-> me, words |-> << me, home >>] >>

\* C22: any two different words of one rhyme group of _analyze_end_rhymes
\* rhyme with each other.
C22_GroupMembersRhyme ==
    pc = "done" =>
        LET groups == analysis.end_rhymes.rhyme_groups
        IN  \A g \in 1..Len(groups) :
                \A m, n \in 1..Len(groups[g].words) :
                    groups[g].words[m] # groups[g].words[n] =>
                        _words_rhyme(groups[g].words[m], groups[g].words[n])

\* C23: every label of a scheme returned by _detect_rhyme_scheme is made of
\* the uppercase letters 'A'..'Z', also when more than 26 line endings that
\* do not rhyme with each other need labels of their own.
C23_LabelsAreLetters ==
    pc = "done" =>
        \A k \in 1..Len(detected) : detected[k] \in UpperSet

SectionLines(k) == SplitNewline(parsed[k].text)

\* C25: the text of every section returned by parse_lyrics holds no blank
\* line and no line recognised as a section header, for every lyrics
\* string, lyrics made of section headers only included.
C25_SectionTextFiltered ==
    pc = "done" =>
        \A k \in 1..Len(parsed) :
            \A n \in 1..Len(SectionLines(k)) :
                /\ Strip(SectionLines(k)[n], Whitespace) # << >>
                /\ _identify_section(SectionLines(k)[n]) = None

\* the trimmed non-blank lines of the lyrics
LyricLines ==
    LET raw == SplitNewline(Strip(lyricsIn, Whitespace))
        stripped == List([n \in 1..Len(raw) |-> Strip(raw[n], Whitespace)],
                         Len(raw))
        NonEmpty(line) == line # << >>
    IN  SelectSeq(stripped, NonEmpty)

\* C30: when the lyrics hold a non-blank line that is not a section header,
\* parse_lyrics returns one section for every header that is followed by
\* such lines before the next header (and one for the lines before the first
\* header), in the order of the lyrics; the section holds exactly those
\* lines, trimmed and in order, and has the type of that header, 'verse'
\* for the lines before the first header.
C30_SectionsOfLyricLines ==
    pc = "done" =>
        LET L == LyricLines
            IsHeader(i) == _identify_section(L[i]) # None
            Lyric == {i \in 1..Len(L) : ~IsHeader(i)}
            LastHeader(i) ==
                IF \E h \in 1..(i - 1) : IsHeader(h)
                THEN Max({h \in 1..(i - 1) : IsHeader(h)}) ELSE 0
            Keys == {LastHeader(i) : i \in Lyric}
            Key(k) == CHOOSE h \in Keys : Cardinality({g \in Keys : g < h}) = k - 1
            Under(h) ==
                LET Member(i) == i \in Lyric /\ LastHeader(i) = h
                    members == SelectSeq(List([i \in 1..Len(L) |-> i], Len(L)), Member)
                IN  List([n \in 1..Len(members) |-> L[members[n]]], Len(members))
        IN  Lyric # {} =>
                /\ Len(parsed) = Cardinality(Keys)
                /\ \A k \in 1..Len(parsed) :
                      /\ SectionLines(k) = Under(Key(k))
                      /\ parsed[k].line_count = Len(Under(Key(k)))
                      /\ parsed[k].type =
                            IF Key(k) = 0 THEN "verse"
                            ELSE _identify_section(L[Key(k)])

\* "me\n[Chorus]\n[Verse 1]\n home ": a verse of the line before the first
\* header, no section for the chorus header, a verse of the trimmed last line
C30_Witness ==
    /\ pc = "done"
    /\ lyricsIn = Join(<< me, ChorusHeader, VerseHeader, PaddedHome >>, << "\n" >>)
    /\ Len(parsed) = 2
    /\ parsed[1].type = "verse"
    /\ parsed[1].text = me
    /\ parsed[2].type = "verse"
    /\ parsed[2].text = home

\* C26: for two or more lines the scheme has one label per line, its first
\* label is 'A', and every later label is a label of an earlier line or the
\* successor of the highest label used so far.
C26_LabelsInOrder ==
    (pc = "done" /\ Len(Lines) >= 2) =>
        LET labels == analysis.rhyme_scheme
            Used(i) == {labels[j] : j \in 1..(i - 1)}
        IN  /\ Len(labels) = Len(Lines)
            /\ labels[1] = "A"
            /\ \A i \in 2..Len(labels) :
                  \/ labels[i] \in Used(i)
                  \/ ord(labels[i]) = Max({ord(c) : c \in Used(i)}) + 1

\* "me\nhome\na": the second line repeats 'A', the third takes 'B'
C26_Witness ==
    /\ pc = "done"
    /\ text = IsolatedText
    /\ analysis.rhyme_scheme = << "A", "A", "B" >>

\* C27: for a text of two or more lines, the labels of the scheme are
\* pairwise different exactly when the list of end-rhyme pairs is empty,
\* and then the end-rhyme density is 0.
C27_DistinctLabelsIffNoPairs ==
    (pc = "done" /\ Len(Lines) >= 2) =>
        LET labels == analysis.rhyme_scheme
            distinct == \A i, j \in 1..Len(labels) : labels[i] = labels[j] => i = j
        IN  /\ distinct <=> (analysis.end_rhymes.rhyme_pairs = << >>)
            /\ (analysis.end_rhymes.rhyme_pairs = << >>)
                  <=> (analysis.end_rhymes.rhyme_density[1] = 0)

\* lines ending in me, bone, me: no pair and the scheme "ABC"
C27_Witness ==
    /\ pc = "done"
    /\ EndWords = << me, bone, me >>
    /\ analysis.end_rhymes.rhyme_pairs = << >>
    /\ analysis.rhyme_scheme = << "A", "B", "C" >>

\* C28: no end-rhyme pair, internal-rhyme pair or multi-syllabic match of
\* the result involves the empty word: a token that is cleaned to the empty
\* string is never judged to rhyme with another word.
C28_NoEmptyWordRhymes ==
    pc = "done" =>
        LET pairs == analysis.end_rhymes.rhyme_pairs
            internal == analysis.internal_rhymes.internal_rhyme_pairs
            multi == analysis.multi_syllabic_rhymes
        IN  /\ \A n \in 1..Len(pairs) :
                  pairs[n][3] # << >> /\ pairs[n][4] # << >>
            /\ \A k \in 1..Len(internal) :
                  \A n \in 1..Len(internal[k].rhymes) :
                      /\ internal[k].rhymes[n][3] # << >>
                      /\ internal[k].rhymes[n][4] # << >>
            /\ \A k \in 1..Len(multi) :
                  multi[k].word1 # << >> /\ multi[k].word2 # << >>

\* C29: no entry of slant_rhymes pairs a word with itself.
C29_NoSlantSelfPair ==
    pc = "done" =>
        \A k \in 1..Len(analysis.slant_rhymes) :
            analysis.slant_rhymes[k].word1 # analysis.slant_rhymes[k].word2

====
